---- MODULE Spec2Model ----
(***************************************************************************)
(* Scrolling capture (src/app/capture/scrolling.py): the capture loop of   *)
(* ScrollingCapture.capture and the stitcher _stitch_images with           *)
(* _find_overlap and _images_match, plus the caller                        *)
(* MainWindow._capture_scrolling.                                          *)
(*                                                                         *)
(* Images.  A PIL RGB image is [width, height, rows]; rows is a sequence   *)
(* of height rows, a row is a run-length encoding of its width pixels      *)
(* (a sequence of runs [px, n], adjacent runs of different pixels), and a  *)
(* pixel is <<r, g, b>>.  The encoding is canonical, so two images are     *)
(* equal exactly when their sizes and bytes are.                           *)
(*                                                                         *)
(* Python's None and an Optional value are the sequences <<>> and <<v>>.   *)
(***************************************************************************)
EXTENDS Integers, Sequences, FiniteSets, TLC

VARIABLES
    pc,             \* position of capture(): start, rect, top, loop, grab,
                    \* check, scroll, after, stitch, stitch_loop, done, raised
    max_scrolls,    \* the argument of capture()
    rect,           \* <<width, height>> read from get_window_rect (line 35)
    images,         \* self.images
    previous_hash,  \* previous_hash (None is <<>>)
    scroll_count,   \* scroll_count
    img,            \* the image of the current iteration (<<>> before one)
    stitched_parts, \* stitched_parts of _stitch_images
    idx,            \* the loop variable i of _stitch_images
    result,         \* what capture() returned (None is <<>>)
    status,         \* MainWindow._capture_scrolling: capturing, handled,
                    \* no_image, capture_failed
    captures,       \* history: number of sct.grab calls made
    dupAt,          \* history: the capture whose hash equalled previous_hash
    failed,         \* history: a collaborator raised inside the loop
    overlaps,       \* history: the values _find_overlap returned, in order
    win,            \* <<left, top>> of the target window on the screen
    origin,         \* left, top read from get_window_rect (line 35)
    region,         \* history: left, top of the last monitor given to grab
    callNo,         \* history: number of capture() calls on this controller
    calls,          \* history: collaborator calls and caller events of the
                    \* current capture() call, in order
    stack,          \* UndoStack._stack
    index,          \* UndoStack._index
    max_size,       \* UndoStack._max_size
    layers,         \* LayerManager._layers
    hist,           \* history: the last two operations on the editor
                    \* objects and the layers before each
    running,        \* ScreenRecorder._running
    paused,         \* ScreenRecorder._paused
    writer,         \* ScreenRecorder._writer: none, open, unopened, released
    frame_count,    \* ScreenRecorder._frame_count
    tpc,            \* position of the recording thread: unstarted, setup,
                    \* test, pausing, timing, grab, write, cleanup, emit,
                    \* finished
    signals,        \* history: emissions of recording_started,
                    \* recording_stopped and error_occurred
    stopCalled      \* history: stop_recording was called: no, running (the
                    \* thread was running), idle (it was not)

vars == <<pc, max_scrolls, rect, images, previous_hash, scroll_count, img,
          stitched_parts, idx, result, status, captures, dupAt, failed,
          overlaps, win, origin, region, callNo, calls, stack, index,
          max_size, layers, hist, running, paused, writer, frame_count, tpc,
          signals, stopCalled>>

(***************************************************************************)
(* Bounds of the model.                                                    *)
(***************************************************************************)
MaxScrolls == 3
MaxFrames == 3

(***************************************************************************)
(* Program constants.                                                      *)
(***************************************************************************)
HashPrefix == 10000
StripHeight == 50
OverlapStep == 10
SampleWidthMax == 100
ThresholdPercent == 95

None == <<>>
Some(v) == <<v>>

Min(a, b) == IF a <= b THEN a ELSE b
Max(a, b) == IF a >= b THEN a ELSE b

(***************************************************************************)
(* Pixels, rows and images.                                                *)
(***************************************************************************)
Grey(v) == <<v, v, v>>
Black == Grey(0)

\* A run appended to a canonical row, keeping it canonical.
AppendRun(runs, px, n) ==
    IF n <= 0 THEN runs
    ELSE IF runs /= <<>> /\ runs[Len(runs)].px = px
         THEN [runs EXCEPT ![Len(runs)].n = @ + n]
         ELSE Append(runs, [px |-> px, n |-> n])

\* The pixels x0 <= x < x1 of a row whose first run starts at column `at`;
\* columns outside the row are black, as PIL's crop fills them.
RECURSIVE ClipRuns(_, _, _, _, _)
ClipRuns(row, at, x0, x1, acc) ==
    IF row = <<>>
    THEN AppendRun(acc, Black, x1 - Max(at, x0))
    ELSE LET lo == Max(at, x0)
             hi == Min(at + row[1].n, x1)
         IN  ClipRuns(Tail(row), at + row[1].n, x0, x1,
                      AppendRun(acc, row[1].px, hi - lo))

CropRow(row, x0, x1) ==
    ClipRuns(row, 0, x0, x1, AppendRun(<<>>, Black, Min(0, x1) - x0))

BlackRow(w) == AppendRun(<<>>, Black, w)

\* Image.crop((x0, y0, x1, y1)): size (x1 - x0, y1 - y0); rows outside the
\* image are black.
Crop(im, x0, y0, x1, y1) ==
    [width  |-> x1 - x0,
     height |-> y1 - y0,
     rows   |-> [r \in 1..(y1 - y0) |->
                    IF y0 + r >= 1 /\ y0 + r <= im.height
                    THEN CropRow(im.rows[y0 + r], x0, x1)
                    ELSE BlackRow(x1 - x0)]]

(***************************************************************************)
(* The screenshot provider.  sct.grab(region) followed by Image.frombytes  *)
(* gives an image of the region's size; its content is whatever the        *)
(* target shows.  The model's targets show a document at a scroll          *)
(* position: "ramp" has a different grey on each of 256 consecutive rows,  *)
(* "blank" is white everywhere, "tail" and "edge" are the ramp down to row  *)
(* 83 or 82 and black below.                                               *)
(***************************************************************************)
DocPixel(doc, r) ==
    IF doc = "ramp" THEN Grey(r % 256)
    ELSE IF doc = "tail" THEN (IF r < 84 THEN Grey(r % 256) ELSE Black)
    ELSE IF doc = "edge" THEN (IF r < 83 THEN Grey(r % 256) ELSE Black)
    ELSE Grey(255)

Shot(doc, pos, w, h) ==
    [width  |-> w,
     height |-> h,
     rows   |-> [r \in 1..h |-> AppendRun(<<>>, DocPixel(doc, pos + r - 1), w)]]

Views == {<<"ramp", 0>>, <<"ramp", 80>>, <<"ramp", 90>>, <<"blank", 0>>}
Rects == {<<40, 140>>, <<40, 120>>}

\* A 100x300 window shows one long ramp document: its top, or the document
\* scrolled down by 20, 80 or 220 rows.
ScenarioRect == <<100, 300>>
ScenarioViews == {<<"ramp", 0>>, <<"ramp", 20>>, <<"ramp", 80>>,
                  <<"ramp", 220>>}

\* A 40x100 window, whose buffer is 12000 bytes, shows the top of the ramp
\* or of a document that leaves the ramp in row 84 or in row 85.
PrefixRect == <<40, 100>>
PrefixViews == {<<"ramp", 0>>, <<"tail", 0>>, <<"edge", 0>>, <<"blank", 0>>}

ViewsOf(rc) ==
    IF rc = ScenarioRect THEN ScenarioViews
    ELSE IF rc = PrefixRect THEN PrefixViews
    ELSE Views

GrabFrames(rc) == {Shot(v[1], v[2], rc[1], rc[2]) : v \in ViewsOf(rc)}

(***************************************************************************)
(* hash(img.tobytes()[:10000]): the digest of the first HashPrefix bytes   *)
(* of the row-major RGB buffer.  Two digests are equal exactly when the    *)
(* prefixes are (hash collisions are outside the model), so the digest is  *)
(* the prefix itself: the canonical runs of its whole pixels and the       *)
(* leading channels of the pixel the cut falls in.                         *)
(***************************************************************************)
\* Two canonical run sequences, one after the other, as one.
CatRuns(a, b) ==
    IF a = <<>> THEN b
    ELSE IF b = <<>> THEN a
    ELSE IF a[Len(a)].px = b[1].px
         THEN SubSeq(a, 1, Len(a) - 1)
              \o <<[px |-> b[1].px, n |-> a[Len(a)].n + b[1].n]>>
              \o Tail(b)
         ELSE a \o b

\* The pixels of rows lo..hi in buffer order.
RECURSIVE RowsRuns(_, _, _)
RowsRuns(rows, lo, hi) ==
    IF lo > hi THEN <<>>
    ELSE IF lo = hi THEN rows[lo]
    ELSE LET mid == (lo + hi) \div 2
         IN  CatRuns(RowsRuns(rows, lo, mid), RowsRuns(rows, mid + 1, hi))

RECURSIVE PixelAt(_, _)
PixelAt(row, x) ==
    IF x < row[1].n THEN row[1].px ELSE PixelAt(Tail(row), x - row[1].n)

\* Mutant of Fingerprint: the digest is over the whole buffer.
Fingerprint_WholeBuffer(im) == <<RowsRuns(im.rows, 1, im.height), <<>>>>

Fingerprint(im) ==
    LET whole == HashPrefix \div 3
        part  == HashPrefix % 3
        full  == IF im.width * im.height <= whole THEN im.height
                 ELSE whole \div im.width
        rest  == IF full < im.height THEN whole - full * im.width ELSE 0
        head  == CatRuns(RowsRuns(im.rows, 1, full),
                         IF rest > 0 THEN CropRow(im.rows[full + 1], 0, rest)
                         ELSE <<>>)
        cut   == IF full < im.height /\ part > 0
                 THEN SubSeq(PixelAt(im.rows[full + 1], rest), 1, part)
                 ELSE <<>>
    IN  <<head, cut>>

(***************************************************************************)
(* _images_match(img1, img2, threshold = 0.95): numpy compares the two     *)
(* arrays element by element, one element per channel of a pixel.          *)
(***************************************************************************)
ChannelsEqual(p, q) == Cardinality({c \in 1..3 : p[c] = q[c]})

DropPixels(row, m) ==
    IF row[1].n = m THEN Tail(row) ELSE [row EXCEPT ![1].n = @ - m]

\* np.sum(arr1 == arr2) restricted to one row of each array.
RECURSIVE RowMatching(_, _)
RowMatching(a, b) ==
    IF a = <<>> \/ b = <<>> THEN 0
    ELSE LET m == Min(a[1].n, b[1].n)
         IN  m * ChannelsEqual(a[1].px, b[1].px)
             + RowMatching(DropPixels(a, m), DropPixels(b, m))

\* np.sum(arr1 == arr2) over the rows lo..hi.
RECURSIVE Matching(_, _, _, _)
Matching(a, b, lo, hi) ==
    IF lo > hi THEN 0
    ELSE IF lo = hi THEN RowMatching(a.rows[lo], b.rows[lo])
    ELSE LET mid == (lo + hi) \div 2
         IN  Matching(a, b, lo, mid) + Matching(a, b, mid + 1, hi)

\* matching / arr1.size >= 0.95 in integers; an empty array divides 0 by 0,
\* which is nan and compares False.
ImagesMatch(a, b) ==
    IF <<a.width, a.height>> /= <<b.width, b.height>> THEN FALSE
    ELSE LET size == a.width * a.height * 3
         IN  /\ size > 0
             /\ Matching(a, b, 1, a.height) * 100 >= ThresholdPercent * size

(***************************************************************************)
(* _find_overlap(img1, img2): the first overlap of range(strip_height,     *)
(* max_overlap, 10) at which the strip of img1 starting at row             *)
(* img1.height - overlap matches the top strip of img2; 0 when none does.  *)
(***************************************************************************)
\* Mutant of ScanOverlap: no return inside the loop, so a later match
\* replaces an earlier one.
RECURSIVE ScanOverlap_KeepsLast(_, _, _, _, _, _)
ScanOverlap_KeepsLast(img1, img2, overlap, max_overlap, x0, x1) ==
    IF overlap >= max_overlap THEN 0
    ELSE LET y1     == img1.height - overlap
             strip1 == Crop(img1, x0, y1, x1, y1 + StripHeight)
             strip2 == Crop(img2, x0, 0, x1, StripHeight)
             later  == ScanOverlap_KeepsLast(img1, img2,
                                             overlap + OverlapStep,
                                             max_overlap, x0, x1)
         IN  IF ImagesMatch(strip1, strip2) /\ later = 0 THEN overlap
             ELSE later

\* Mutant of ScanOverlap: every other candidate is skipped.
RECURSIVE ScanOverlap_Step20(_, _, _, _, _, _)
ScanOverlap_Step20(img1, img2, overlap, max_overlap, x0, x1) ==
    IF overlap >= max_overlap THEN 0
    ELSE LET y1     == img1.height - overlap
             strip1 == Crop(img1, x0, y1, x1, y1 + StripHeight)
             strip2 == Crop(img2, x0, 0, x1, StripHeight)
         IN  IF ImagesMatch(strip1, strip2) THEN overlap
             ELSE ScanOverlap_Step20(img1, img2, overlap + 2 * OverlapStep,
                                     max_overlap, x0, x1)

RECURSIVE ScanOverlap(_, _, _, _, _, _)
ScanOverlap(img1, img2, overlap, max_overlap, x0, x1) ==
    IF overlap >= max_overlap THEN 0
    ELSE LET y1     == img1.height - overlap
             strip1 == Crop(img1, x0, y1, x1, y1 + StripHeight)
             strip2 == Crop(img2, x0, 0, x1, StripHeight)
         IN  IF ImagesMatch(strip1, strip2) THEN overlap
             ELSE ScanOverlap(img1, img2, overlap + OverlapStep,
                              max_overlap, x0, x1)

\* Mutant of FindOverlap: max_overlap is not halved.
FindOverlap_NotHalved(img1, img2) ==
    LET max_overlap  == Min(img1.height, img2.height)
        sample_x     == img1.width \div 2
        sample_width == Min(SampleWidthMax, img1.width \div 4)
    IN  ScanOverlap(img1, img2, StripHeight, max_overlap,
                    sample_x - sample_width \div 2,
                    sample_x + sample_width \div 2)

FindOverlap(img1, img2) ==
    LET max_overlap  == Min(img1.height, img2.height) \div 2
        sample_x     == img1.width \div 2
        sample_width == Min(SampleWidthMax, img1.width \div 4)
    IN  ScanOverlap(img1, img2, StripHeight, max_overlap,
                    sample_x - sample_width \div 2,
                    sample_x + sample_width \div 2)

(***************************************************************************)
(* _stitch_images.                                                         *)
(***************************************************************************)
\* Mutant of StitchPart: the crop box is given as (x, y, width, height).
StitchPart_BoxAsSize(curr_img, overlap) ==
    IF overlap > 0
    THEN Crop(curr_img, 0, overlap, curr_img.width,
              curr_img.height - overlap)
    ELSE curr_img

\* Mutant of StitchPart: the rows above the overlap line are kept instead
\* of the rows below it.
StitchPart_KeepsTop(curr_img, overlap) ==
    IF overlap > 0
    THEN Crop(curr_img, 0, 0, curr_img.width, curr_img.height - overlap)
    ELSE curr_img

\* Lines 111-119: what the pair (prev_img, curr_img) adds to stitched_parts,
\* given the overlap _find_overlap returned.
StitchPart(curr_img, overlap) ==
    IF overlap > 0
    THEN Crop(curr_img, 0, overlap, curr_img.width, curr_img.height)
    ELSE curr_img

RECURSIVE TotalHeight(_)
TotalHeight(parts) ==
    IF parts = <<>> THEN 0 ELSE parts[1].height + TotalHeight(Tail(parts))

\* Image.new('RGB', (w, h)): black.
NewImage(w, h) ==
    [width |-> w, height |-> h, rows |-> [r \in 1..h |-> BlackRow(w)]]

\* result.paste(im, (0, y)): the rows y .. y + im.height - 1 of the canvas
\* take im's pixels in the columns both have; the rest is left as it was.
Paste(canvas, im, y) ==
    [canvas EXCEPT !.rows =
        [r \in 1..canvas.height |->
            IF r > y /\ r <= y + im.height
            THEN ClipRuns(canvas.rows[r], 0, im.width, canvas.width,
                          CropRow(im.rows[r - y], 0,
                                  Min(im.width, canvas.width)))
            ELSE canvas.rows[r]]]

RECURSIVE PasteAll(_, _, _)
PasteAll(canvas, parts, y_offset) ==
    IF parts = <<>> THEN canvas
    ELSE PasteAll(Paste(canvas, parts[1], y_offset), Tail(parts),
                  y_offset + parts[1].height)

\* Mutant of Compose: Image.new is given (height, width).
Compose_Swapped(parts) ==
    PasteAll(NewImage(TotalHeight(parts), parts[1].width), parts, 0)

RECURSIVE MaxWidth(_)
MaxWidth(parts) ==
    IF parts = <<>> THEN 0 ELSE Max(parts[1].width, MaxWidth(Tail(parts)))

\* Mutant of Compose: the output is as wide as the widest part.
Compose_Widest(parts) ==
    PasteAll(NewImage(MaxWidth(parts), TotalHeight(parts)), parts, 0)

\* Lines 121-133.
Compose(parts) ==
    PasteAll(NewImage(parts[1].width, TotalHeight(parts)), parts, 0)

\* The whole of _stitch_images on a store of at least one image.
StitchImages(imgs) ==
    IF Len(imgs) = 1 THEN imgs[1]
    ELSE Compose([k \in 1..Len(imgs) |->
                    IF k = 1 THEN imgs[1]
                    ELSE StitchPart(imgs[k],
                                    FindOverlap(imgs[k - 1], imgs[k]))])

(***************************************************************************)
(* ScrollingCapture.capture on a controller MainWindow._capture_scrolling  *)
(* has just constructed (self.images = []).                                *)
(***************************************************************************)
\* UndoStack() and LayerManager() as constructed, no operation applied.
DefaultMaxSize == 50
NoHist == [op |-> "none", prev |-> "none", was |-> <<>>, was2 |-> <<>>]

EditorIdle ==
    /\ stack = <<>>
    /\ index = -1
    /\ max_size = DefaultMaxSize
    /\ layers = <<>>
    /\ hist = NoHist

\* ScreenRecorder.__init__, lines 33-43.
NoSignals == [started |-> 0, stopped |-> 0, error |-> 0]

RecorderIdle ==
    /\ running = FALSE
    /\ paused = FALSE
    /\ writer = "none"
    /\ frame_count = 0
    /\ tpc = "unstarted"
    /\ signals = NoSignals
    /\ stopCalled = "no"

Init ==
    /\ pc = "start"
    /\ max_scrolls \in 0..MaxScrolls
    /\ rect = <<0, 0>>
    /\ images = <<>>
    /\ previous_hash = None
    /\ scroll_count = 0
    /\ img = None
    /\ stitched_parts = <<>>
    /\ idx = 0
    /\ result = None
    /\ status = "capturing"
    /\ captures = 0
    /\ dupAt = 0
    /\ failed = FALSE
    /\ overlaps = <<>>
    /\ win = <<0, 0>>
    /\ origin = None
    /\ region = None
    /\ callNo = 1
    /\ calls = <<>>
    /\ EditorIdle
    /\ RecorderIdle

stitchVars == <<stitched_parts, idx, overlaps>>
loopVars == <<images, previous_hash, scroll_count, img, captures, dupAt>>
editorVars == <<stack, index, max_size, layers, hist>>
recorderVars == <<running, paused, writer, frame_count, tpc, signals,
                  stopCalled>>
otherVars == <<editorVars, recorderVars>>
hostVars == <<win, callNo, otherVars>>

\* Lines 32-33: bring_window_to_front and the settle delay.
BringToFront ==
    /\ pc = "start"
    /\ pc' = "rect"
    /\ UNCHANGED <<max_scrolls, rect, loopVars, stitchVars, result, status,
                   failed>>
    /\ calls' = Append(calls, "front")
    /\ UNCHANGED <<hostVars, origin, region>>

\* Line 35: the rectangle (left, top, width, height) is read once, before
\* the loop.
GetWindowRect ==
    /\ pc = "rect"
    /\ \E rc \in Rects : rect' = rc
    /\ pc' = "top"
    /\ UNCHANGED <<max_scrolls, loopVars, stitchVars, result, status, failed>>
    /\ origin' = Some(win)
    /\ UNCHANGED <<hostVars, region, calls>>

\* Mutant of ScrollToTop: previous_hash starts as the hash of a blank frame.
ScrollToTop_HashOfBlank ==
    /\ pc = "top"
    /\ previous_hash' = Some(Fingerprint(Shot("blank", 0, rect[1], rect[2])))
    /\ scroll_count' = 0
    /\ pc' = "loop"
    /\ UNCHANGED <<max_scrolls, rect, images, img, captures, dupAt,
                   stitchVars, result, status, failed>>
    /\ calls' = Append(calls, "top")
    /\ UNCHANGED <<hostVars, origin, region>>

\* Lines 38-42: _scroll_to_top, the settle delay, previous_hash = None and
\* scroll_count = 0.
ScrollToTop ==
    /\ pc = "top"
    /\ previous_hash' = None
    /\ scroll_count' = 0
    /\ pc' = "loop"
    /\ UNCHANGED <<max_scrolls, rect, images, img, captures, dupAt,
                   stitchVars, result, status, failed>>
    /\ calls' = Append(calls, "top")
    /\ UNCHANGED <<hostVars, origin, region>>

\* Mutant of LoopTest: the loop test lets one more iteration through.
LoopTest_OffByOne ==
    /\ pc = "loop"
    /\ pc' = IF scroll_count <= max_scrolls THEN "grab" ELSE "after"
    /\ UNCHANGED <<max_scrolls, rect, loopVars, stitchVars, result, status,
                   failed>>
    /\ UNCHANGED <<hostVars, origin, region, calls>>

\* Mutant of LoopTest: a cancellation requested by the caller ends the loop.
LoopTest_Cancellable ==
    /\ pc = "loop"
    /\ pc' = IF scroll_count < max_scrolls
                /\ \A k \in DOMAIN calls : calls[k] /= "cancel"
             THEN "grab" ELSE "after"
    /\ UNCHANGED <<max_scrolls, rect, loopVars, stitchVars, result, status,
                   failed>>
    /\ UNCHANGED <<hostVars, origin, region, calls>>

\* Line 45: while scroll_count < max_scrolls.
LoopTest ==
    /\ pc = "loop"
    /\ pc' = IF scroll_count < max_scrolls THEN "grab" ELSE "after"
    /\ UNCHANGED <<max_scrolls, rect, loopVars, stitchVars, result, status,
                   failed>>
    /\ UNCHANGED <<hostVars, origin, region, calls>>

\* Lines 47-58: sct.grab over the monitor built from the left, top, width
\* and height read at line 35.
Grab ==
    /\ pc = "grab"
    /\ \E f \in GrabFrames(rect) : img' = Some(f)
    /\ captures' = captures + 1
    /\ pc' = "check"
    /\ UNCHANGED <<max_scrolls, rect, images, previous_hash, scroll_count,
                   dupAt, stitchVars, result, status, failed>>
    /\ region' = origin
    /\ calls' = Append(calls, "grab")
    /\ UNCHANGED <<hostVars, origin>>

\* Mutant of GrabRaises: the exception is caught and ends the loop.
GrabRaises_Swallowed ==
    /\ pc = "grab"
    /\ captures' = captures + 1
    /\ failed' = TRUE
    /\ pc' = "after"
    /\ UNCHANGED <<max_scrolls, rect, images, previous_hash, scroll_count,
                   img, dupAt, stitchVars, result, status>>
    /\ region' = origin
    /\ calls' = Append(calls, "grab")
    /\ UNCHANGED <<hostVars, origin>>

\* sct.grab raises: nothing in capture() catches it.
GrabRaises ==
    /\ pc = "grab"
    /\ captures' = captures + 1
    /\ failed' = TRUE
    /\ pc' = "raised"
    /\ UNCHANGED <<max_scrolls, rect, images, previous_hash, scroll_count,
                   img, dupAt, stitchVars, result, status>>
    /\ region' = origin
    /\ calls' = Append(calls, "grab")
    /\ UNCHANGED <<hostVars, origin>>

\* Mutant of CheckHash: the image is stored before the hashes are compared.
CheckHash_StoreFirst ==
    /\ pc = "check"
    /\ images' = Append(images, img[1])
    /\ LET current_hash == Some(Fingerprint(img[1]))
       IN  IF current_hash = previous_hash
           THEN /\ pc' = "after"
                /\ dupAt' = captures
                /\ UNCHANGED previous_hash
           ELSE /\ previous_hash' = current_hash
                /\ pc' = "scroll"
                /\ UNCHANGED dupAt
    /\ UNCHANGED <<max_scrolls, rect, scroll_count, img, captures,
                   stitchVars, result, status, failed>>
    /\ UNCHANGED <<hostVars, origin, region, calls>>

\* Mutant of CheckHash: a repeated hash does not end the loop; the image is
\* dropped and the loop scrolls on.
CheckHash_IgnoresRepeat ==
    /\ pc = "check"
    /\ LET current_hash == Some(Fingerprint(img[1]))
       IN  IF current_hash = previous_hash
           THEN /\ pc' = "scroll"
                /\ UNCHANGED <<images, previous_hash>>
           ELSE /\ images' = Append(images, img[1])
                /\ previous_hash' = current_hash
                /\ pc' = "scroll"
    /\ UNCHANGED <<max_scrolls, rect, scroll_count, img, captures, dupAt,
                   stitchVars, result, status, failed>>
    /\ UNCHANGED <<hostVars, origin, region, calls>>

\* Lines 61-68: the hash of the prefix; break on a repeat, else store.
CheckHash ==
    /\ pc = "check"
    /\ LET current_hash == Some(Fingerprint(img[1]))
       IN  IF current_hash = previous_hash
           THEN /\ pc' = "after"
                /\ dupAt' = captures
                /\ UNCHANGED <<images, previous_hash>>
           ELSE /\ images' = Append(images, img[1])
                /\ previous_hash' = current_hash
                /\ pc' = "scroll"
                /\ UNCHANGED dupAt
    /\ UNCHANGED <<max_scrolls, rect, scroll_count, img, captures,
                   stitchVars, result, status, failed>>
    /\ UNCHANGED <<hostVars, origin, region, calls>>

\* Mutant of ScrollDown: the counter advances by two.
ScrollDown_Twice ==
    /\ pc = "scroll"
    /\ scroll_count' = scroll_count + 2
    /\ pc' = "loop"
    /\ UNCHANGED <<max_scrolls, rect, images, previous_hash, img, captures,
                   dupAt, stitchVars, result, status, failed>>
    /\ calls' = Append(calls, "down")
    /\ UNCHANGED <<hostVars, origin, region>>

\* Mutant of ScrollDown: the scroll is a scroll to the top.
ScrollDown_ToTop ==
    /\ pc = "scroll"
    /\ scroll_count' = scroll_count + 1
    /\ pc' = "loop"
    /\ UNCHANGED <<max_scrolls, rect, images, previous_hash, img, captures,
                   dupAt, stitchVars, result, status, failed>>
    /\ calls' = Append(calls, "top")
    /\ UNCHANGED <<hostVars, origin, region>>

\* Mutant of ScrollDown: the counter advances but no scroll is issued.
ScrollDown_Silent ==
    /\ pc = "scroll"
    /\ scroll_count' = scroll_count + 1
    /\ pc' = "loop"
    /\ UNCHANGED <<max_scrolls, rect, images, previous_hash, img, captures,
                   dupAt, stitchVars, result, status, failed>>
    /\ UNCHANGED <<hostVars, origin, region, calls>>

\* Lines 71-73: _scroll_down, the settle delay, scroll_count += 1.
ScrollDown ==
    /\ pc = "scroll"
    /\ scroll_count' = scroll_count + 1
    /\ pc' = "loop"
    /\ UNCHANGED <<max_scrolls, rect, images, previous_hash, img, captures,
                   dupAt, stitchVars, result, status, failed>>
    /\ calls' = Append(calls, "down")
    /\ UNCHANGED <<hostVars, origin, region>>

\* _scroll_down raises: nothing in capture() catches it.
ScrollDownRaises ==
    /\ pc = "scroll"
    /\ failed' = TRUE
    /\ pc' = "raised"
    /\ UNCHANGED <<max_scrolls, rect, loopVars, stitchVars, result, status>>
    /\ calls' = Append(calls, "down")
    /\ UNCHANGED <<hostVars, origin, region>>

\* Mutant of AfterLoop: a store of one image counts as empty.
AfterLoop_OneIsEmpty ==
    /\ pc = "after"
    /\ pc' = IF Len(images) <= 1 THEN "done" ELSE "stitch"
    /\ result' = None
    /\ UNCHANGED <<max_scrolls, rect, loopVars, stitchVars, status, failed>>
    /\ calls' = IF Len(images) <= 1 THEN calls
              ELSE Append(calls, "stitch")
    /\ UNCHANGED <<hostVars, origin, region>>

\* Lines 75-78: None for an empty store, else _stitch_images.
AfterLoop ==
    /\ pc = "after"
    /\ pc' = IF images = <<>> THEN "done" ELSE "stitch"
    /\ result' = None
    /\ UNCHANGED <<max_scrolls, rect, loopVars, stitchVars, status, failed>>
    /\ calls' = IF images = <<>> THEN calls ELSE Append(calls, "stitch")
    /\ UNCHANGED <<hostVars, origin, region>>

\* Mutant of StitchSingle: no early return, and the loop runs over
\* range(len(self.images)), so that the image is paired with images[-1],
\* itself.
StitchSingle_PairedWithItself ==
    /\ pc = "stitch"
    /\ Len(images) = 1
    /\ LET overlap == FindOverlap(images[1], images[1])
       IN  /\ result' = Some(Compose(<<StitchPart(images[1], overlap)>>))
           /\ overlaps' = <<overlap>>
    /\ pc' = "done"
    /\ UNCHANGED <<max_scrolls, rect, loopVars, stitched_parts, idx, status,
                   failed>>
    /\ UNCHANGED <<hostVars, origin, region, calls>>

\* Lines 100-101: a single image is returned as it is.
StitchSingle ==
    /\ pc = "stitch"
    /\ Len(images) = 1
    /\ result' = Some(images[1])
    /\ pc' = "done"
    /\ UNCHANGED <<max_scrolls, rect, loopVars, stitchVars, status, failed>>
    /\ UNCHANGED <<hostVars, origin, region, calls>>

\* Mutant of StitchStart: stitched_parts starts empty.
StitchStart_NoFirst ==
    /\ pc = "stitch"
    /\ Len(images) > 1
    /\ stitched_parts' = <<>>
    /\ idx' = 1
    /\ overlaps' = <<>>
    /\ pc' = "stitch_loop"
    /\ UNCHANGED <<max_scrolls, rect, loopVars, result, status, failed>>
    /\ UNCHANGED <<hostVars, origin, region, calls>>

\* Line 104: stitched_parts = [self.images[0]].
StitchStart ==
    /\ pc = "stitch"
    /\ Len(images) > 1
    /\ stitched_parts' = <<images[1]>>
    /\ idx' = 1
    /\ overlaps' = <<>>
    /\ pc' = "stitch_loop"
    /\ UNCHANGED <<max_scrolls, rect, loopVars, result, status, failed>>
    /\ UNCHANGED <<hostVars, origin, region, calls>>

\* Lines 106-119: one iteration of the loop over range(1, len(self.images)).
\* Mutant of StitchPair: the overlap is looked for against the part the
\* previous image contributed, not against the previous image.
StitchPair_AgainstSlice ==
    /\ pc = "stitch_loop"
    /\ idx < Len(images)
    /\ LET prev_img == stitched_parts[idx]
           curr_img == images[idx + 1]
           overlap  == FindOverlap(prev_img, curr_img)
       IN  /\ stitched_parts' = Append(stitched_parts,
                                        StitchPart(curr_img, overlap))
           /\ overlaps' = Append(overlaps, overlap)
    /\ idx' = idx + 1
    /\ UNCHANGED <<pc, max_scrolls, rect, loopVars, result, status, failed>>
    /\ UNCHANGED <<hostVars, origin, region, calls>>

StitchPair ==
    /\ pc = "stitch_loop"
    /\ idx < Len(images)
    /\ LET prev_img == images[idx]
           curr_img == images[idx + 1]
           overlap  == FindOverlap(prev_img, curr_img)
       IN  /\ stitched_parts' = Append(stitched_parts,
                                        StitchPart(curr_img, overlap))
           /\ overlaps' = Append(overlaps, overlap)
    /\ idx' = idx + 1
    /\ UNCHANGED <<pc, max_scrolls, rect, loopVars, result, status, failed>>
    /\ UNCHANGED <<hostVars, origin, region, calls>>

\* Lines 121-133: the output image.
StitchPaste ==
    /\ pc = "stitch_loop"
    /\ idx = Len(images)
    /\ result' = Some(Compose(stitched_parts))
    /\ pc' = "done"
    /\ UNCHANGED <<max_scrolls, rect, loopVars, stitchVars, status, failed>>
    /\ UNCHANGED <<hostVars, origin, region, calls>>

\* MainWindow._capture_scrolling, lines 571-578: the returned image is
\* handled, or "Failed to capture scrolling content".
CallerReturn ==
    /\ pc = "done"
    /\ status = "capturing"
    /\ status' = IF result /= None THEN "handled" ELSE "no_image"
    /\ UNCHANGED <<pc, max_scrolls, rect, loopVars, stitchVars, result,
                   failed>>
    /\ UNCHANGED <<hostVars, origin, region, calls>>

\* MainWindow._capture_scrolling, lines 582-585: except Exception.
CallerExcept ==
    /\ pc = "raised"
    /\ status = "capturing"
    /\ status' = "capture_failed"
    /\ UNCHANGED <<pc, max_scrolls, rect, loopVars, stitchVars, result,
                   failed>>
    /\ UNCHANGED <<hostVars, origin, region, calls>>

Next ==
    \/ BringToFront
    \/ GetWindowRect
    \/ ScrollToTop
    \/ LoopTest
    \/ Grab
    \/ GrabRaises
    \/ CheckHash
    \/ ScrollDown
    \/ ScrollDownRaises
    \/ AfterLoop
    \/ StitchSingle
    \/ StitchStart
    \/ StitchPair
    \/ StitchPaste
    \/ CallerReturn
    \/ CallerExcept

Spec == Init /\ [][Next]_vars

(***************************************************************************)
(* _stitch_images as a function of the store: self.images is any sequence  *)
(* of 1..MaxFrames images, of one size or not.                             *)
(***************************************************************************)
StitchFrames ==
    {Shot("ramp", 0, 40, 140), Shot("ramp", 80, 40, 140),
     Shot("ramp", 90, 40, 120), Shot("blank", 0, 40, 140),
     Shot("ramp", 0, 48, 140), Shot("ramp", 90, 32, 60)}

FrameSeqs == UNION {[1..n -> StitchFrames] : n \in 1..MaxFrames}

InitStitch ==
    /\ pc = "stitch"
    /\ max_scrolls = 0
    /\ rect = <<0, 0>>
    /\ images \in FrameSeqs
    /\ previous_hash = None
    /\ scroll_count = 0
    /\ img = None
    /\ stitched_parts = <<>>
    /\ idx = 0
    /\ result = None
    /\ status = "capturing"
    /\ captures = 0
    /\ dupAt = 0
    /\ failed = FALSE
    /\ overlaps = <<>>
    /\ win = <<0, 0>>
    /\ origin = None
    /\ region = None
    /\ callNo = 1
    /\ calls = <<>>
    /\ EditorIdle
    /\ RecorderIdle

NextStitch ==
    \/ StitchSingle
    \/ StitchStart
    \/ StitchPair
    \/ StitchPaste

SpecStitch == InitStitch /\ [][NextStitch]_vars

(***************************************************************************)
(* Properties.                                                             *)
(***************************************************************************)
Returned == pc = "done"
Ended == pc \in {"done", "raised"}
CommonWidth(imgs) == \A k \in 1..Len(imgs) : imgs[k].width = imgs[1].width

RECURSIVE SumContributed(_, _, _)
SumContributed(imgs, ovs, k) ==
    IF k > Len(imgs) THEN 0
    ELSE imgs[k].height - ovs[k - 1] + SumContributed(imgs, ovs, k + 1)

\* A natural number that every step of capture() and of its caller
\* decreases: the steps left in the worst case.
PcRank ==
    LET after == max_scrolls + 4
        left  == max_scrolls - scroll_count
    IN  CASE pc = "start" -> after + 4 * max_scrolls + 4
          [] pc = "rect" -> after + 4 * max_scrolls + 3
          [] pc = "top" -> after + 4 * max_scrolls + 2
          [] pc = "loop" -> after + 4 * left + 1
          [] pc = "grab" -> after + 4 * left
          [] pc = "check" -> after + 4 * left - 1
          [] pc = "scroll" -> after + 4 * left - 2
          [] pc = "after" -> 3 + Len(images)
          [] pc = "stitch" -> 2 + Len(images)
          [] pc = "stitch_loop" -> 1 + Len(images) - idx
          [] OTHER -> 0

Measure == 2 * PcRank + (IF status = "capturing" THEN 1 ELSE 0)

\* No position of capture() is one at which the code cannot go on.
NotStuck ==
    /\ pc = "check" => img /= None
    /\ pc = "stitch" => Len(images) >= 1
    /\ pc = "stitch_loop" => idx >= 1 /\ idx <= Len(images)

\* C1: whatever the screenshot provider returns or raises, capture makes at
\* most max_scrolls captures, the store never holds more than max_scrolls
\* images, and capture ends: every step decreases a natural number and no
\* position before the end is stuck.
C1_BoundedCapture ==
    /\ [](/\ captures <= max_scrolls
          /\ Len(images) <= max_scrolls
          /\ Measure >= 0
          /\ PcRank = 0 <=> Ended
          /\ NotStuck)
    /\ [][Measure' < Measure]_vars

C1_Witness ==
    /\ Returned
    /\ dupAt = 0
    /\ max_scrolls >= 2
    /\ captures = max_scrolls
    /\ Len(images) = max_scrolls

\* C2: a capture whose fingerprint equals the previous stored one ends the
\* loop without being stored: adjacent stored images have different
\* fingerprints, once a duplicate is seen no further capture is made and the
\* store holds the captures before it, and the output is the stitch of the
\* store alone.
C2_DuplicateDiscarded ==
    /\ \A k \in 1..(Len(images) - 1) :
          Fingerprint(images[k]) /= Fingerprint(images[k + 1])
    /\ dupAt /= 0 =>
          /\ pc \in {"after", "stitch", "stitch_loop", "done"}
          /\ captures = dupAt
          /\ Len(images) = dupAt - 1
          /\ Some(Fingerprint(img[1])) = previous_hash
          /\ Fingerprint(images[Len(images)]) = Fingerprint(img[1])
    /\ (dupAt /= 0 /\ Returned) =>
          /\ result = Some(StitchImages(images))
          /\ Len(stitched_parts) \in {0, Len(images)}

C2_Witness ==
    /\ Returned
    /\ dupAt = 3
    /\ Len(images) = 2

C4_NoneIffEmpty ==
    Returned =>
        /\ result = None <=> images = <<>>
        /\ images /= <<>> => result = Some(StitchImages(images))
        /\ status = "no_image" => images = <<>>
        /\ status = "handled" => images /= <<>>

C4_Witness ==
    /\ Returned
    /\ Len(images) >= 2
    /\ result = Some(StitchImages(images))
    /\ status = "handled"

C6_HeightInvariant ==
    Returned =>
        /\ Len(overlaps) = IF stitched_parts = <<>> THEN 0
                           ELSE Len(images) - 1
        /\ result[1].height =
              images[1].height
              + SumContributed(images, [k \in 1..(Len(images) - 1) |->
                                          IF Len(images) = 1 THEN 0
                                          ELSE overlaps[k]], 2)

C6_Witness ==
    /\ Returned
    /\ Len(images) = 3
    /\ overlaps[1] > 0
    /\ overlaps[2] = 0

\* C7: the stitch of a single image is that image, with the same size and
\* pixels, and _find_overlap is not called.
C7_SingleUnchanged ==
    (Returned /\ Len(images) = 1) =>
        /\ result = Some(images[1])
        /\ overlaps = <<>>
        /\ stitched_parts = <<>>

C7_Witness ==
    /\ Returned
    /\ Len(images) = 1
    /\ result = Some(images[1])

\* C8: for images of one width the stitched height is at least the height
\* of the tallest image.
C8_AtLeastTallest ==
    (Returned /\ CommonWidth(images)) =>
        \A k \in 1..Len(images) : result[1].height >= images[k].height

C8_Witness ==
    /\ Returned
    /\ CommonWidth(images)
    /\ Len(images) = 3
    /\ images[2].height < images[1].height
    /\ overlaps[1] > 0

\* C9: for images of one width the stitched width is images[0].width.
C9_WidthInvariant ==
    (Returned /\ CommonWidth(images)) => result[1].width = images[1].width

C9_Witness ==
    /\ Returned
    /\ CommonWidth(images)
    /\ Len(images) = 3
    /\ result[1].width = 40

\* C10 as stated: images of different widths are never stitched into an
\* output image.
C10_Original == ~CommonWidth(images) => ~Returned

\* The row at which part k of stitched_parts starts in the output.
RECURSIVE PartTop(_, _)
PartTop(parts, k) ==
    IF k = 1 THEN 0 ELSE PartTop(parts, k - 1) + parts[k - 1].height

\* C10 as amended: images of different widths are not rejected; they are
\* stitched into an image of the width of images[0], in which every part
\* narrower than that is padded with black on the right and every wider
\* part is cut at that width.
C10_MixedWidthsStitched ==
    ~CommonWidth(images) =>
        /\ pc \in {"stitch", "stitch_loop", "done"}
        /\ Returned =>
              /\ result /= None
              /\ result[1].width = images[1].width
              /\ result[1].height = TotalHeight(stitched_parts)
              /\ \A k \in 1..Len(stitched_parts) :
                    \A r \in 1..stitched_parts[k].height :
                       result[1].rows[PartTop(stitched_parts, k) + r]
                         = CropRow(stitched_parts[k].rows[r], 0,
                                   images[1].width)

C10_Witness ==
    /\ Returned
    /\ Len(images) = 3
    /\ images[2].width > images[1].width
    /\ images[3].width < images[1].width

(***************************************************************************)
(* _find_overlap as a function of a pair of images: self.images is any     *)
(* pair of the images below.  "band" is a white document whose rows        *)
(* 135..139 are black.                                                     *)
(***************************************************************************)
BandShot(pos, w, h) ==
    [width  |-> w,
     height |-> h,
     rows   |-> [r \in 1..h |->
                    AppendRun(<<>>,
                              IF pos + r - 1 \in 135..139 THEN Black
                              ELSE Grey(255), w)]]

OverlapFrames ==
    {Shot("ramp", 0, 40, 160), Shot("ramp", 90, 40, 160),
     Shot("ramp", 80, 40, 140), Shot("blank", 0, 40, 140),
     Shot("blank", 0, 40, 102), Shot("blank", 0, 40, 101),
     BandShot(0, 40, 140), BandShot(85, 40, 140),
     Shot("ramp", 0, 48, 140), Shot("ramp", 90, 40, 60)}

InitOverlap ==
    /\ pc = "stitch"
    /\ max_scrolls = 0
    /\ rect = <<0, 0>>
    /\ images \in [1..2 -> OverlapFrames]
    /\ previous_hash = None
    /\ scroll_count = 0
    /\ img = None
    /\ stitched_parts = <<>>
    /\ idx = 0
    /\ result = None
    /\ status = "capturing"
    /\ captures = 0
    /\ dupAt = 0
    /\ failed = FALSE
    /\ overlaps = <<>>
    /\ win = <<0, 0>>
    /\ origin = None
    /\ region = None
    /\ callNo = 1
    /\ calls = <<>>
    /\ EditorIdle
    /\ RecorderIdle

NextOverlap ==
    \/ StitchStart
    \/ StitchPair
    \/ StitchPaste

SpecOverlap == InitOverlap /\ [][NextOverlap]_vars

\* C11: every value _find_overlap returns is 0 or one of 50, 60, 70, ...
\* below min(height_prev, height_next) \div 2, and it is 0 whenever the
\* smaller height is at most 101.
C11_OverlapRange ==
    \A k \in 1..Len(overlaps) :
        LET o == overlaps[k]
            m == Min(images[k].height, images[k + 1].height)
        IN  /\ \/ o = 0
               \/ /\ o >= StripHeight
                  /\ o < m \div 2
                  /\ (o - StripHeight) % OverlapStep = 0
            /\ m <= 101 => o = 0

C11_Witness ==
    /\ Returned
    /\ overlaps = <<70>>
    /\ images[2].height = 160

\* The comparison _find_overlap makes at one candidate overlap.
StripsMatchAt(img1, img2, o) ==
    LET sample_x     == img1.width \div 2
        sample_width == Min(SampleWidthMax, img1.width \div 4)
        x0           == sample_x - sample_width \div 2
        x1           == sample_x + sample_width \div 2
    IN  ImagesMatch(Crop(img1, x0, img1.height - o, x1,
                         img1.height - o + StripHeight),
                    Crop(img2, x0, 0, x1, StripHeight))

MatchingCandidates(img1, img2) ==
    {o \in StripHeight..(Min(img1.height, img2.height) \div 2 - 1) :
        /\ (o - StripHeight) % OverlapStep = 0
        /\ StripsMatchAt(img1, img2, o)}

\* C12: _find_overlap returns the smallest of the candidates 50, 60, ...
\* below max_overlap whose strips match, and 0 exactly when none does.
C12_SmallestCandidate ==
    \A k \in 1..Len(overlaps) :
        LET cands == MatchingCandidates(images[k], images[k + 1])
        IN  /\ overlaps[k] = 0 <=> cands = {}
            /\ cands /= {} =>
                  /\ overlaps[k] \in cands
                  /\ \A o \in cands : overlaps[k] <= o

C12_Witness ==
    /\ Returned
    /\ Cardinality(MatchingCandidates(images[1], images[2])) >= 2
    /\ overlaps = <<StripHeight>>

\* The top t rows of img2 are the bottom t rows of img1, byte for byte.
ExactAt(img1, img2, t) ==
    /\ img1.width = img2.width
    /\ \A r \in 1..t : img2.rows[r] = img1.rows[img1.height - t + r]

TrueOffsets(img1, img2) ==
    {t \in StripHeight..Min(img1.height, img2.height) : ExactAt(img1, img2, t)}

\* C13 as stated: when the top rows of the next image are byte-identical to
\* the rows of the previous one from height_prev - k on, for some k of at
\* least a strip, _find_overlap returns at most the smallest such k.
C13_Original ==
    \A k \in 1..Len(overlaps) :
        \A t \in TrueOffsets(images[k], images[k + 1]) : overlaps[k] <= t

\* Rows the first k images contribute: all rows of the first, then of each
\* later one the rows from its overlap line down.
RECURSIVE ExpectedRows(_, _, _)
ExpectedRows(imgs, ovs, k) ==
    IF k = 1 THEN imgs[1].rows
    ELSE ExpectedRows(imgs, ovs, k - 1)
         \o SubSeq(imgs[k].rows, ovs[k - 1] + 1, imgs[k].height)

\* C19: for images of one width the rows of the stitched image are, top to
\* bottom, all rows of images[0], then for each later image in order its
\* rows from row overlap down when an overlap was found and all its rows
\* when none was.
C19_RowsInOrder ==
    (Returned /\ result /= None /\ CommonWidth(images)) =>
        /\ Len(images) >= 2 => Len(overlaps) = Len(images) - 1
        /\ result[1].rows = ExpectedRows(images, overlaps, Len(images))

C19_Witness ==
    /\ Returned
    /\ CommonWidth(images)
    /\ Len(images) = 3
    /\ images[1] /= images[3]
    /\ overlaps[1] > 0
    /\ overlaps[2] = 0
    /\ result[1].rows[images[1].height + 1] = images[2].rows[overlaps[1] + 1]

(***************************************************************************)
(* The surroundings of one capture() call: the host that owns the target   *)
(* window, the caller that may ask for cancellation, the Qt event loop of  *)
(* the UI thread, and a caller that calls capture() again on the same      *)
(* controller.  Each is added to Next in a specification of its own.       *)
(***************************************************************************)
EnvScrolls == 2
MaxUiEvents == 2
MaxCalls == 2
Positions == {<<0, 0>>, <<10, 20>>}

Count(ev) == Cardinality({k \in DOMAIN calls : calls[k] = ev})
IndexOf(ev) == CHOOSE k \in DOMAIN calls :
                  /\ calls[k] = ev
                  /\ \A j \in 1..(k - 1) : calls[j] /= ev
CountAfter(ev, mark) ==
    IF Count(mark) = 0 THEN 0
    ELSE Cardinality({k \in DOMAIN calls :
                         k > IndexOf(mark) /\ calls[k] = ev})

programVars == <<pc, max_scrolls, rect, loopVars, stitchVars, result, status,
                 failed, origin, region>>

InitEnv ==
    /\ Init
    /\ max_scrolls >= 1
    /\ max_scrolls <= EnvScrolls

\* The host repositions the target window between two iterations.
HostMoves ==
    /\ pc = "loop"
    /\ \E p \in Positions \ {win} : win' = p
    /\ UNCHANGED <<programVars, callNo, calls, otherVars>>

SpecMove == InitEnv /\ [][Next \/ HostMoves]_vars

\* The caller asks for cancellation while the loop is running.  capture()
\* has no parameter, attribute or flag through which it could see this.
SignalCancel ==
    /\ pc \in {"loop", "grab", "check", "scroll"}
    /\ Count("cancel") = 0
    /\ calls' = Append(calls, "cancel")
    /\ UNCHANGED <<programVars, hostVars>>

SpecCancel == InitEnv /\ [][Next \/ SignalCancel]_vars

\* Mutant of UiEvent: events are processed while the handler is running.
UiEvent_Reentrant ==
    /\ Count("event") < MaxUiEvents
    /\ calls' = Append(calls, "event")
    /\ UNCHANGED <<programVars, hostVars>>

\* The Qt event loop processes another event: only once the handler
\* _capture_scrolling, which runs capture() itself, has returned.
UiEvent ==
    /\ status /= "capturing"
    /\ Count("event") < MaxUiEvents
    /\ calls' = Append(calls, "event")
    /\ UNCHANGED <<programVars, hostVars>>

SpecUi == InitEnv /\ [][Next \/ UiEvent]_vars

\* capture() is called again on the same controller: its locals start
\* afresh, self.images is what the previous call left.
CaptureAgain ==
    /\ pc = "done"
    /\ status /= "capturing"
    /\ callNo < MaxCalls
    /\ callNo' = callNo + 1
    /\ pc' = "start"
    /\ previous_hash' = None
    /\ scroll_count' = 0
    /\ img' = None
    /\ stitched_parts' = <<>>
    /\ idx' = 0
    /\ result' = None
    /\ status' = "capturing"
    /\ captures' = 0
    /\ dupAt' = 0
    /\ overlaps' = <<>>
    /\ origin' = None
    /\ region' = None
    /\ calls' = <<>>
    /\ UNCHANGED <<max_scrolls, rect, images, failed, win, otherVars>>

InitReuse ==
    /\ Init
    /\ max_scrolls = 1

SpecReuse == InitReuse /\ [][Next \/ CaptureAgain]_vars

(***************************************************************************)
(* capture() on a 100x300 window, from the scroll to the top on.           *)
(***************************************************************************)
InitScenario ==
    /\ pc = "top"
    /\ max_scrolls \in 0..MaxScrolls
    /\ rect = ScenarioRect
    /\ images = <<>>
    /\ previous_hash = None
    /\ scroll_count = 0
    /\ img = None
    /\ stitched_parts = <<>>
    /\ idx = 0
    /\ result = None
    /\ status = "capturing"
    /\ captures = 0
    /\ dupAt = 0
    /\ failed = FALSE
    /\ overlaps = <<>>
    /\ win = <<0, 0>>
    /\ origin = Some(win)
    /\ region = None
    /\ callNo = 1
    /\ calls = <<"front">>
    /\ EditorIdle
    /\ RecorderIdle

NextScenario ==
    \/ ScrollToTop
    \/ LoopTest
    \/ Grab
    \/ CheckHash
    \/ ScrollDown
    \/ AfterLoop
    \/ StitchSingle
    \/ StitchStart
    \/ StitchPair
    \/ StitchPaste

SpecScenario == InitScenario /\ [][NextScenario]_vars

\* The frames of the scenario: the first, the second as the scenario words
\* it (the document moved up by 80 rows, or 20 new rows at the bottom), and
\* the second whose top 80 rows are the bottom 80 rows of the first.
Frame1 == Shot("ramp", 0, 100, 300)
Frame2ShiftedBy80 == Shot("ramp", 80, 100, 300)
Frame2With20New == Shot("ramp", 20, 100, 300)
Frame2Overlapping80 == Shot("ramp", 220, 100, 300)

\* The third grab returned the second frame again and ended the loop.
ScenarioRan(frame2) ==
    /\ Returned
    /\ Len(images) >= 2
    /\ images[1] = Frame1
    /\ images[2] = frame2
    /\ captures = 3
    /\ dupAt = 3

\* C14 as stated: with frame 2 being frame 1 moved up by 80 rows (or with 20
\* new rows at its bottom) and frame 3 equal to frame 2, two frames are
\* stored, _find_overlap returns 80 and the stitched height is 520.
C14_Original ==
    (ScenarioRan(Frame2ShiftedBy80) \/ ScenarioRan(Frame2With20New)) =>
        /\ Len(images) = 2
        /\ overlaps = <<80>>
        /\ result[1].height = 520

\* C14: with frame 2 starting with the bottom 80 rows of frame 1 (the
\* document moved up by 220 rows) and frame 3 equal to frame 2, two frames
\* are stored, _find_overlap returns 80 and the stitched image is 100 wide
\* and 300 + (300 - 80) = 520 high.
C14_ScenarioOverlap80 ==
    ScenarioRan(Frame2Overlapping80) =>
        /\ Len(images) = 2
        /\ overlaps = <<80>>
        /\ result[1].width = 100
        /\ result[1].height = 520

C14_Witness ==
    /\ ScenarioRan(Frame2Overlapping80)
    /\ ExactAt(images[1], images[2], 80)
    /\ result[1].height = 520

\* C15 as stated: each grab is made over the rectangle the target has at
\* that iteration, also after the host has moved it.
C15_Original ==
    pc = "check" => region = Some(win)

\* Grabs and scrolls started after the cancellation was requested.
Cancelled == Count("cancel") = 1

\* C16 as stated: once cancellation is requested, no capture and no scroll
\* is started beyond the one in flight.
C16_Original ==
    /\ CountAfter("grab", "cancel") <= 1
    /\ CountAfter("down", "cancel") <= 1

\* C16: a cancellation request changes nothing: the test at the top of each
\* iteration is scroll_count < max_scrolls alone, and after a request the
\* loop goes on capturing and scrolling until a repeated hash, the bound or
\* an exception ends it.
C16_CancelIgnored ==
    [][(pc = "loop" /\ pc' /= "loop") =>
          pc' = IF scroll_count < max_scrolls THEN "grab" ELSE "after"]_vars

C16_Witness ==
    /\ Cancelled
    /\ CountAfter("grab", "cancel") = 2
    /\ CountAfter("down", "cancel") = 2
    /\ Len(images) = 2

InProgress == pc \notin {"done", "raised"}

\* C17 as stated: while capture() is in progress the handler that started it
\* has returned.
C17_Original ==
    InProgress => status /= "capturing"

\* C17: capture() and the stitching run inside the handler
\* _capture_scrolling on the UI thread: while they are in progress the
\* handler has not returned, and the event loop processes no other event
\* until it has.
C17_RunsInHandler ==
    /\ InProgress => status = "capturing"
    /\ status = "capturing" => Count("event") = 0

C17_Witness ==
    /\ pc = "stitch_loop"
    /\ scroll_count = 2
    /\ status = "capturing"
    /\ Count("event") = 0

\* C18 as stated: when capture() has returned the controller holds no
\* images, and a later call holds only images captured during that call.
C18_Original ==
    /\ Returned => images = <<>>
    /\ callNo >= 2 => Len(images) <= captures

\* C20: bring_window_to_front is called exactly once and before
\* _scroll_to_top, _scroll_to_top exactly once and before the first grab,
\* and _stitch_images at most once, after the loop has ended.
C20_CallOrder ==
    /\ Count("front") = IF pc = "start" THEN 0 ELSE 1
    /\ Count("top") = IF pc \in {"start", "rect", "top"} THEN 0 ELSE 1
    /\ Count("top") = 1 => IndexOf("front") < IndexOf("top")
    /\ \A k \in DOMAIN calls :
          calls[k] \in {"grab", "down"} =>
              /\ Count("top") = 1
              /\ IndexOf("top") < k
    /\ Count("stitch") = IF pc \in {"stitch", "stitch_loop"}
                            \/ (Returned /\ result /= None)
                         THEN 1 ELSE 0
    /\ \A k \in DOMAIN calls :
          calls[k] = "stitch" =>
              /\ k = Len(calls)
              /\ pc \in {"stitch", "stitch_loop", "done"}

C20_Witness ==
    /\ Returned
    /\ Count("grab") = 3
    /\ Count("down") = 2
    /\ calls[Len(calls)] = "stitch"

\* The grabs and scrolls of the current call, in the order they were made.
IsGrabOrDown(ev) == ev \in {"grab", "down"}
GrabsAndDowns == SelectSeq(calls, IsGrabOrDown)

\* C21: without a failure grabs and scrolls alternate, starting with a grab;
\* at the loop test and after the loop the number of scrolls is the number
\* of stored images, and the grab whose hash was a repeat is followed by no
\* scroll.
C21_GrabScrollAlternate ==
    ~failed =>
        /\ \A k \in DOMAIN GrabsAndDowns :
              GrabsAndDowns[k] = IF k % 2 = 1 THEN "grab" ELSE "down"
        /\ pc \in {"loop", "after"} => Count("down") = Len(images)
        /\ pc = "scroll" => Count("down") = Len(images) - 1
        /\ dupAt > 0 =>
              /\ GrabsAndDowns[Len(GrabsAndDowns)] = "grab"
              /\ Count("grab") = dupAt
              /\ Count("down") = dupAt - 1

C21_Witness ==
    /\ pc = "after"
    /\ ~failed
    /\ dupAt = 3
    /\ GrabsAndDowns = <<"grab", "down", "grab", "down", "grab">>

\* C22: with max_scrolls >= 2, a second grab that returns the first image
\* again ends the loop: one image is stored, one scroll was issued, and
\* capture returns the first image unchanged.
C22_NoEffectStopsAtSecond ==
    /\ []((Returned /\ dupAt = 2) =>
             /\ max_scrolls >= 2
             /\ captures = 2
             /\ Len(images) = 1
             /\ img = Some(images[1])
             /\ Count("down") = 1
             /\ result = Some(images[1]))
    /\ [][(pc = "check" /\ captures = 2 /\ img = Some(images[1])) =>
             (pc' = "after" /\ dupAt' = 2 /\ images' = images)]_vars

C22_Witness ==
    /\ Returned
    /\ max_scrolls = 3
    /\ dupAt = 2
    /\ img = Some(images[1])
    /\ result = Some(images[1])

\* C27: with max_scrolls >= 1 and no failure the first grabbed image is
\* stored, whatever it shows, and capture returns an image; without a
\* failure it returns None only when max_scrolls is 0.
C27_FirstImageStored ==
    /\ (captures >= 1 /\ ~failed /\ pc /= "check") => Len(images) >= 1
    /\ (pc = "scroll" /\ captures = 1) => images = <<img[1]>>
    /\ Returned => (result = None <=> max_scrolls = 0)
    /\ (Returned /\ max_scrolls >= 1) => images /= <<>>

C27_Witness ==
    /\ Returned
    /\ max_scrolls = 1
    /\ images = <<Shot("blank", 0, rect[1], rect[2])>>
    /\ result = Some(images[1])

(***************************************************************************)
(* capture() on a 40x100 window, from the scroll to the top on.            *)
(***************************************************************************)
InitPrefix ==
    /\ pc = "top"
    /\ max_scrolls \in 0..MaxScrolls
    /\ rect = PrefixRect
    /\ images = <<>>
    /\ previous_hash = None
    /\ scroll_count = 0
    /\ img = None
    /\ stitched_parts = <<>>
    /\ idx = 0
    /\ result = None
    /\ status = "capturing"
    /\ captures = 0
    /\ dupAt = 0
    /\ failed = FALSE
    /\ overlaps = <<>>
    /\ win = <<0, 0>>
    /\ origin = Some(win)
    /\ region = None
    /\ callNo = 1
    /\ calls = <<"front">>
    /\ EditorIdle
    /\ RecorderIdle

SpecPrefix == InitPrefix /\ [][NextScenario]_vars

\* Byte i (from 0) of img.tobytes(): row-major, three bytes per pixel.
ByteAt(im, i) ==
    PixelAt(im.rows[(i \div 3) \div im.width + 1], (i \div 3) % im.width)
        [(i % 3) + 1]

\* Two images of one size have the same first HashPrefix bytes: the rows
\* that lie wholly in the prefix are equal, and so is each byte of the row
\* the prefix ends in.
SamePrefix(a, b) ==
    LET rowBytes == 3 * a.width
        size     == rowBytes * a.height
        n        == Min(HashPrefix, size)
        full     == n \div rowBytes
    IN  /\ <<a.width, a.height>> = <<b.width, b.height>>
        /\ \A r \in 1..full : a.rows[r] = b.rows[r]
        /\ \A i \in (full * rowBytes)..(n - 1) : ByteAt(a, i) = ByteAt(b, i)

\* C23: whether the loop stops at a grabbed image depends only on its first
\* 10000 bytes and those of the image stored last: it stops exactly when
\* they are equal, also when the two images differ further on, and the
\* grabbed image is then not stored.
C23_PrefixDecides ==
    /\ []((pc = "after" /\ dupAt > 0) =>
             /\ SamePrefix(img[1], images[Len(images)])
             /\ Len(images) = dupAt - 1)
    /\ [][(pc = "check" /\ images /= <<>>) =>
             IF SamePrefix(img[1], images[Len(images)])
             THEN pc' = "after" /\ images' = images
             ELSE pc' = "scroll" /\ images' = Append(images, img[1])]_vars

C23_Witness ==
    /\ pc = "after"
    /\ dupAt = 2
    /\ img[1] /= images[1]
    /\ SamePrefix(img[1], images[1])
    /\ Len(images) = 1

(***************************************************************************)
(* _images_match as a function of two strips.  A strip is white but for    *)
(* the first k pixels of its first row, which differ from white in one or  *)
(* in all three channels.                                                  *)
(***************************************************************************)
MaxChanged == 4

Strip(k, px, w, h) ==
    [width  |-> w,
     height |-> h,
     rows   |-> [r \in 1..h |->
                    IF r = 1
                    THEN AppendRun(AppendRun(<<>>, px, k), Grey(255), w - k)
                    ELSE AppendRun(<<>>, Grey(255), w)]]

MatchStrips ==
    {Strip(k, px, 20, 2) : k \in 0..MaxChanged, px \in {<<0, 255, 255>>, Black}}
    \cup {Strip(0, Black, 20, 1), Strip(0, Black, 10, 4)}

InitMatch ==
    /\ pc = "match"
    /\ max_scrolls = 0
    /\ rect = <<0, 0>>
    /\ images \in [1..2 -> MatchStrips]
    /\ previous_hash = None
    /\ scroll_count = 0
    /\ img = None
    /\ stitched_parts = <<>>
    /\ idx = 0
    /\ result = None
    /\ status = "capturing"
    /\ captures = 0
    /\ dupAt = 0
    /\ failed = FALSE
    /\ overlaps = <<>>
    /\ win = <<0, 0>>
    /\ origin = None
    /\ region = None
    /\ callNo = 1
    /\ calls = <<>>
    /\ EditorIdle
    /\ RecorderIdle

\* Lines 174-187: one call of _images_match on the two strips.
CallImagesMatch ==
    /\ pc = "match"
    /\ result' = Some(ImagesMatch(images[1], images[2]))
    /\ pc' = "matched"
    /\ UNCHANGED <<max_scrolls, rect, loopVars, stitchVars, status, failed>>
    /\ UNCHANGED <<hostVars, origin, region, calls>>

SpecMatch == InitMatch /\ [][CallImagesMatch]_vars

\* The pixels of two rows that are equal in all three channels.
RECURSIVE RowExact(_, _)
RowExact(a, b) ==
    IF a = <<>> \/ b = <<>> THEN 0
    ELSE LET m == Min(a[1].n, b[1].n)
         IN  (IF a[1].px = b[1].px THEN m ELSE 0)
             + RowExact(DropPixels(a, m), DropPixels(b, m))

RECURSIVE ExactPixels(_, _, _)
ExactPixels(a, b, r) ==
    IF r > a.height THEN 0
    ELSE RowExact(a.rows[r], b.rows[r]) + ExactPixels(a, b, r + 1)

\* C24 as stated: two strips match exactly when they have one size and at
\* least 95% of their pixels are equal in all three channels.
C24_Original ==
    pc = "matched" =>
        LET a == images[1]
            b == images[2]
        IN  result[1] =
               (/\ <<a.width, a.height>> = <<b.width, b.height>>
                /\ ExactPixels(a, b, 1) * 100
                      >= ThresholdPercent * a.width * a.height)

\* C25: _stitch_images and _find_overlap leave self.images as it was, with
\* the same images in the same order, and every overlap is the one between
\* the two stored images, not between a cropped part and the next image.
C25_StoreUntouched ==
    /\ [](\A k \in 1..Len(overlaps) :
             overlaps[k] = FindOverlap(images[k], images[k + 1]))
    /\ [](stitched_parts /= <<>> => stitched_parts[1] = images[1])
    /\ [][images' = images]_vars

C25_Witness ==
    /\ Returned
    /\ Len(images) = 3
    /\ overlaps[1] > 0
    /\ overlaps[2] > 0
    /\ stitched_parts[2] /= images[2]
    /\ FindOverlap(stitched_parts[2], images[3]) /= overlaps[2]

\* Mutant of ScanRange: the candidates start at 0.
ScanRange_FromZero(img1, img2) ==
    {o \in 0..(Min(img1.height, img2.height) \div 2 - 1) :
        o % OverlapStep = 0}

\* Line 151: range(strip_height, max_overlap, 10).
ScanRange(img1, img2) ==
    {o \in StripHeight..(Min(img1.height, img2.height) \div 2 - 1) :
        (o - StripHeight) % OverlapStep = 0}

\* Lines 153-158: the box cropped from img1 at a candidate overlap.
PrevStripBox(img1, overlap) ==
    LET sample_x     == img1.width \div 2
        sample_width == Min(SampleWidthMax, img1.width \div 4)
        y1           == img1.height - overlap
    IN  <<sample_x - sample_width \div 2, y1,
          sample_x + sample_width \div 2, y1 + StripHeight>>

\* Lines 160-165: the box cropped from img2.
NextStripBox(img1) ==
    LET sample_x     == img1.width \div 2
        sample_width == Min(SampleWidthMax, img1.width \div 4)
    IN  <<sample_x - sample_width \div 2, 0,
          sample_x + sample_width \div 2, StripHeight>>

\* The box <<left, upper, right, lower>> lies inside the image.
Inside(box, im) ==
    /\ 0 <= box[1]
    /\ box[1] <= box[3]
    /\ box[3] <= im.width
    /\ 0 <= box[2]
    /\ box[2] <= box[4]
    /\ box[4] <= im.height

\* C26: for two images of one width and every overlap _find_overlap tries,
\* the strip cropped from the previous image and the strip cropped from the
\* next one lie inside their images, rows and columns.
C26_StripsInside ==
    \A k \in 1..(Len(images) - 1) :
        images[k].width = images[k + 1].width =>
            /\ \A o \in ScanRange(images[k], images[k + 1]) :
                  /\ Inside(PrevStripBox(images[k], o), images[k])
                  /\ Inside(NextStripBox(images[k]), images[k + 1])
                  /\ PrevStripBox(images[k], o)[2] = images[k].height - o
            /\ k <= Len(overlaps) =>
                  overlaps[k] \in ScanRange(images[k], images[k + 1]) \cup {0}

C26_Witness ==
    /\ pc = "stitch_loop"
    /\ Len(overlaps) = 1
    /\ images[1].width = images[2].width
    /\ Cardinality(ScanRange(images[1], images[2])) = 3
    /\ overlaps[1] = 70

(***************************************************************************)
(* UndoStack (editor/layers.py): push, undo, redo and clear on a stack     *)
(* built with a small max_size.  No capture is in progress.                *)
(***************************************************************************)
MaxSize == 3
UndoActions == {"a", "b", "c"}

captureVars == <<programVars, win, callNo, calls>>

CaptureIdle ==
    /\ pc = "idle"
    /\ max_scrolls = 0
    /\ rect = <<0, 0>>
    /\ images = <<>>
    /\ previous_hash = None
    /\ scroll_count = 0
    /\ img = None
    /\ stitched_parts = <<>>
    /\ idx = 0
    /\ result = None
    /\ status = "idle"
    /\ captures = 0
    /\ dupAt = 0
    /\ failed = FALSE
    /\ overlaps = <<>>
    /\ win = <<0, 0>>
    /\ origin = None
    /\ region = None
    /\ callNo = 0
    /\ calls = <<>>

\* Mutant of PushStack: the actions after the current index are kept.
PushStack_KeepsRedoTail(stk, i, max, action) ==
    LET appended == Append(stk, action)
    IN  IF Len(appended) > max
        THEN [stack |-> Tail(appended), index |-> i]
        ELSE [stack |-> appended, index |-> Len(appended) - 1]

\* Lines 16-28: push.  The result is the new _stack and _index.
PushStack(stk, i, max, action) ==
    LET appended == Append(SubSeq(stk, 1, i + 1), action)
    IN  IF Len(appended) > max
        THEN [stack |-> Tail(appended), index |-> i]
        ELSE [stack |-> appended, index |-> Len(appended) - 1]

\* The last operation and the state it found, after the one before it.
Remember(op, before) ==
    [op |-> op, prev |-> hist.op, was |-> before, was2 |-> hist.was]

InitUndo ==
    /\ CaptureIdle
    /\ RecorderIdle
    /\ stack = <<>>
    /\ index = -1
    /\ max_size \in 0..MaxSize
    /\ layers = <<>>
    /\ hist = NoHist

Push ==
    /\ \E action \in UndoActions :
          LET pushed == PushStack(stack, index, max_size, action)
          IN  /\ stack' = pushed.stack
              /\ index' = pushed.index
    /\ hist' = Remember("push", stack)
    /\ UNCHANGED <<max_size, layers, captureVars, recorderVars>>

\* Lines 30-36: undo.
Undo ==
    /\ index' = IF index >= 0 THEN index - 1 ELSE index
    /\ hist' = Remember("undo", stack)
    /\ UNCHANGED <<stack, max_size, layers, captureVars, recorderVars>>

\* Lines 38-43: redo.
Redo ==
    /\ index' = IF index < Len(stack) - 1 THEN index + 1 ELSE index
    /\ hist' = Remember("redo", stack)
    /\ UNCHANGED <<stack, max_size, layers, captureVars, recorderVars>>

\* Lines 53-56: clear.
Clear ==
    /\ stack' = <<>>
    /\ index' = -1
    /\ hist' = Remember("clear", stack)
    /\ UNCHANGED <<max_size, layers, captureVars, recorderVars>>

NextUndo ==
    \/ Push
    \/ Undo
    \/ Redo
    \/ Clear

SpecUndo == InitUndo /\ [][NextUndo]_vars

\* Lines 49-51: can_redo.
CanRedo == index < Len(stack) - 1

\* C28: after any pushes, undos, redos and clears, -1 <= _index <=
\* len(_stack) - 1 and len(_stack) <= _max_size; right after a push _index
\* is len(_stack) - 1 and can_redo() is false, also when the push dropped
\* the oldest action of a full stack.
C28_IndexInRange ==
    /\ -1 <= index
    /\ index <= Len(stack) - 1
    /\ Len(stack) <= max_size
    /\ hist.op = "push" =>
          /\ index = Len(stack) - 1
          /\ ~CanRedo

C28_Witness ==
    /\ hist.op = "push"
    /\ max_size = MaxSize
    /\ Len(hist.was) = max_size
    /\ Len(stack) = max_size
    /\ SubSeq(stack, 1, max_size - 1) = Tail(hist.was)
    /\ stack[1] /= hist.was[1]

(***************************************************************************)
(* LayerManager (editor/layers.py): recorded add_layer, remove_layer and   *)
(* clear_layers, undo and redo.  An item is a QGraphicsItem; the same item *)
(* may be handed to add_layer more than once.                              *)
(***************************************************************************)
MaxLayers == 3
MaxRecorded == 3
Items == {"x", "y"}

\* list.index(item), counted from 1.
FirstIndex(list, item) ==
    CHOOSE k \in DOMAIN list :
        /\ list[k] = item
        /\ \A j \in 1..(k - 1) : list[j] /= item

Contains(list, item) == \E k \in DOMAIN list : list[k] = item

\* list.remove(item): the first occurrence goes.
RemoveFirst(list, item) ==
    LET k == FirstIndex(list, item)
    IN  SubSeq(list, 1, k - 1) \o SubSeq(list, k + 1, Len(list))

\* list.insert(i, item) with i counted from 0; past the end it appends.
InsertAt(list, i, item) ==
    LET k == Min(i, Len(list))
    IN  SubSeq(list, 1, k) \o <<item>> \o SubSeq(list, k + 1, Len(list))

InitLayers ==
    /\ CaptureIdle
    /\ RecorderIdle
    /\ EditorIdle

\* Lines 71-82: add_layer(item, record_undo=True).
AddLayer ==
    /\ Len(layers) < MaxLayers
    /\ Len(stack) < MaxRecorded
    /\ \E item \in Items :
          LET pushed == PushStack(stack, index, max_size,
                                  [type |-> "add", item |-> item])
          IN  /\ layers' = Append(layers, item)
              /\ stack' = pushed.stack
              /\ index' = pushed.index
    /\ hist' = Remember("add", layers)
    /\ UNCHANGED <<max_size, captureVars, recorderVars>>

\* Lines 84-98: remove_layer(item, record_undo=True) of an item in the list.
RemoveLayer ==
    /\ Len(stack) < MaxRecorded
    /\ \E item \in Items :
          /\ Contains(layers, item)
          /\ LET pushed == PushStack(stack, index, max_size,
                                     [type  |-> "remove", item |-> item,
                                      index |-> FirstIndex(layers, item) - 1])
             IN  /\ layers' = RemoveFirst(layers, item)
                 /\ stack' = pushed.stack
                 /\ index' = pushed.index
    /\ hist' = Remember("remove", layers)
    /\ UNCHANGED <<max_size, captureVars, recorderVars>>

\* Lines 100-113: clear_layers(record_undo=True) of a list that is not empty.
ClearLayers ==
    /\ Len(stack) < MaxRecorded
    /\ layers /= <<>>
    /\ LET pushed == PushStack(stack, index, max_size,
                               [type |-> "clear", items |-> layers])
       IN  /\ stack' = pushed.stack
           /\ index' = pushed.index
    /\ layers' = <<>>
    /\ hist' = Remember("clear", layers)
    /\ UNCHANGED <<max_size, captureVars, recorderVars>>

\* Lines 119-146: undo, when the stack has an action to undo.
LayerUndo ==
    /\ index >= 0
    /\ LET action == stack[index + 1]
       IN  layers' =
              IF action.type = "add"
              THEN IF Contains(layers, action.item)
                   THEN RemoveFirst(layers, action.item)
                   ELSE layers
              ELSE IF action.type = "remove"
              THEN InsertAt(layers, action.index, action.item)
              ELSE layers \o action.items
    /\ index' = index - 1
    /\ hist' = Remember("undo", layers)
    /\ UNCHANGED <<stack, max_size, captureVars, recorderVars>>

\* Lines 149-176: redo, when the stack has an action to redo.
LayerRedo ==
    /\ index < Len(stack) - 1
    /\ LET action == stack[index + 2]
       IN  layers' =
              IF action.type = "add"
              THEN Append(layers, action.item)
              ELSE IF action.type = "remove"
              THEN IF Contains(layers, action.item)
                   THEN RemoveFirst(layers, action.item)
                   ELSE layers
              ELSE <<>>
    /\ index' = index + 1
    /\ hist' = Remember("redo", layers)
    /\ UNCHANGED <<stack, max_size, captureVars, recorderVars>>

NextLayers ==
    \/ AddLayer
    \/ RemoveLayer
    \/ ClearLayers
    \/ LayerUndo
    \/ LayerRedo

SpecLayers == InitLayers /\ [][NextLayers]_vars

\* C29 as stated: an undo right after a recorded operation gives back the
\* list of layers as it was before the operation, and a redo right after an
\* undo the list as it was before the undo.
C29_Original ==
    /\ (hist.op = "undo" /\ hist.prev \in {"add", "remove", "clear"}) =>
          layers = hist.was2
    /\ (hist.op = "redo" /\ hist.prev = "undo") => layers = hist.was2

(***************************************************************************)
(* ScreenRecorder (recording/video.py): the caller's thread calls          *)
(* start_recording, pause_recording, resume_recording and stop_recording;  *)
(* the QThread runs run() and _do_recording().  The two interleave at      *)
(* every read and write of _running and _paused.                           *)
(***************************************************************************)
MaxWritten == 3

InitRecorder ==
    /\ CaptureIdle
    /\ EditorIdle
    /\ RecorderIdle

recorderRest == <<captureVars, editorVars>>

\* Lines 53-67: start_recording; self.start() starts the thread.
StartRecording ==
    /\ tpc = "unstarted"
    /\ stopCalled = "no"
    /\ running' = TRUE
    /\ paused' = FALSE
    /\ frame_count' = 0
    /\ tpc' = "setup"
    /\ UNCHANGED <<writer, signals, stopCalled, recorderRest>>

\* Lines 69-72: stop_recording; wait() then blocks the caller until the
\* thread has finished.
StopRecording ==
    /\ stopCalled = "no"
    /\ running' = FALSE
    /\ stopCalled' = IF tpc \in {"unstarted", "finished"} THEN "idle"
                     ELSE "running"
    /\ UNCHANGED <<paused, writer, frame_count, tpc, signals, recorderRest>>

\* Lines 74-77: pause_recording.
PauseRecording ==
    /\ stopCalled = "no"
    /\ ~paused
    /\ paused' = TRUE
    /\ UNCHANGED <<running, writer, frame_count, tpc, signals, stopCalled,
                   recorderRest>>

\* Lines 79-82: resume_recording.
ResumeRecording ==
    /\ stopCalled = "no"
    /\ paused
    /\ paused' = FALSE
    /\ UNCHANGED <<running, writer, frame_count, tpc, signals, stopCalled,
                   recorderRest>>

\* Lines 101-133: the region, the writer, and recording_started.
ThreadSetup ==
    /\ tpc = "setup"
    /\ writer' = "open"
    /\ signals' = [signals EXCEPT !.started = @ + 1]
    /\ tpc' = "test"
    /\ UNCHANGED <<running, paused, frame_count, stopCalled, recorderRest>>

\* Lines 129-131: the writer did not open; error_occurred and return.
WriterNotOpened ==
    /\ tpc = "setup"
    /\ writer' = "unopened"
    /\ signals' = [signals EXCEPT !.error = @ + 1]
    /\ tpc' = "finished"
    /\ UNCHANGED <<running, paused, frame_count, stopCalled, recorderRest>>

\* Line 138: while self._running.
TestRunning ==
    /\ tpc = "test"
    /\ tpc' = IF running THEN "pausing" ELSE "cleanup"
    /\ UNCHANGED <<running, paused, writer, frame_count, signals, stopCalled,
                   recorderRest>>

\* Lines 139-141: if self._paused: sleep and continue.
TestPaused ==
    /\ tpc = "pausing"
    /\ tpc' = IF paused THEN "test" ELSE "timing"
    /\ UNCHANGED <<running, paused, writer, frame_count, signals, stopCalled,
                   recorderRest>>

\* Lines 143-146 and 167-169: a frame is due, or the thread sleeps for the
\* rest of the interval.
Timing ==
    /\ tpc = "timing"
    /\ \/ /\ frame_count < MaxWritten
          /\ tpc' = "grab"
       \/ tpc' = "test"
    /\ UNCHANGED <<running, paused, writer, frame_count, signals, stopCalled,
                   recorderRest>>

\* Lines 147-158: sct.grab and the conversions.
RecorderGrab ==
    /\ tpc = "grab"
    /\ tpc' = "write"
    /\ UNCHANGED <<running, paused, writer, frame_count, signals, stopCalled,
                   recorderRest>>

\* sct.grab raises: run() (lines 92-97) catches it and emits
\* error_occurred; the rest of _do_recording is skipped.
RecorderGrabRaises ==
    /\ tpc = "grab"
    /\ signals' = [signals EXCEPT !.error = @ + 1]
    /\ tpc' = "finished"
    /\ UNCHANGED <<running, paused, writer, frame_count, stopCalled,
                   recorderRest>>

\* Lines 160-166: the frame is written and counted.
WriteFrame ==
    /\ tpc = "write"
    /\ frame_count' = frame_count + 1
    /\ tpc' = "test"
    /\ UNCHANGED <<running, paused, writer, signals, stopCalled,
                   recorderRest>>

\* Line 172: self._writer.release().
ReleaseWriter ==
    /\ tpc = "cleanup"
    /\ writer' = "released"
    /\ tpc' = "emit"
    /\ UNCHANGED <<running, paused, frame_count, signals, stopCalled,
                   recorderRest>>

\* Line 179: recording_stopped.emit.
EmitStopped ==
    /\ tpc = "emit"
    /\ signals' = [signals EXCEPT !.stopped = @ + 1]
    /\ tpc' = "finished"
    /\ UNCHANGED <<running, paused, writer, frame_count, stopCalled,
                   recorderRest>>

NextRecorder ==
    \/ StartRecording
    \/ StopRecording
    \/ PauseRecording
    \/ ResumeRecording
    \/ ThreadSetup
    \/ WriterNotOpened
    \/ TestRunning
    \/ TestPaused
    \/ Timing
    \/ RecorderGrab
    \/ RecorderGrabRaises
    \/ WriteFrame
    \/ ReleaseWriter
    \/ EmitStopped

SpecRecorder == InitRecorder /\ [][NextRecorder]_vars

\* C30 as stated: when stop_recording was called while the thread was
\* running, the thread ends having released the writer and emitted
\* recording_stopped exactly once; once its loop has seen the stop it is
\* past every write.
C30_Original ==
    /\ signals.stopped <= 1
    /\ tpc \in {"cleanup", "emit"} => ~running
    /\ (stopCalled = "running" /\ tpc = "finished") =>
          /\ writer = "released"
          /\ signals.stopped = 1

====
